---------------------------- MODULE Spec2Model ----------------------------
(***************************************************************************)
(* Model of Scripts/phase1.py of homework-hero: the section-selector       *)
(* parser parse_section_spec, the document transform                       *)
(* build_output_structure, and the command-line driver main.               *)
(*                                                                         *)
(* Text is a sequence of one-character strings.  A JSON value is a record  *)
(* tagged by t: null, bool, int, float, str, list, dict; a dict is the     *)
(* sequence of its items [k, v] in insertion order, as a Python dict is.   *)
(* A call either returns, [kind |-> "return", value |-> ...], or raises,   *)
(* [kind |-> "raise", exc |-> ..., msg |-> ...].                           *)
(***************************************************************************)
EXTENDS Integers, Sequences, FiniteSets, TLC

VARIABLES
    call,            \* the function call under study and its arguments
    ret,             \* its outcome, Pending until it has run
    pc,              \* main's position
    args,            \* main: the argparse namespace
    stdin,           \* main: what sys.stdin holds
    theme_file,      \* main: what the file at --themepath holds
    data,            \* main: local variable
    theme_text,      \* main: local variable
    section_filter,  \* main: local variable
    output,          \* main: local variable
    stdout,          \* main: sequence of texts written to sys.stdout
    stderr,          \* main: sequence of messages written to sys.stderr
    exit_status      \* main: the process's exit status, -1 while running

vars == <<call, ret, pc, args, stdin, theme_file, data, theme_text,
          section_filter, output, stdout, stderr, exit_status>>

mainVars == <<pc, args, stdin, theme_file, data, theme_text,
              section_filter, output, stdout, stderr, exit_status>>

-----------------------------------------------------------------------------
(* Bounds of the model *)

MaxSpecLen == 5

MaxSections == 2

MaxKeys == 4

-----------------------------------------------------------------------------
(* Outcomes *)

Pending == [kind |-> "pending"]

Return(v) == [kind |-> "return", value |-> v]

Raise(e, m) == [kind |-> "raise", exc |-> e, msg |-> m]

Unbound == [t |-> "unbound"]

-----------------------------------------------------------------------------
(* Python text primitives used by parse_section_spec *)

Digits == {"0", "1", "2", "3", "4", "5", "6", "7", "8", "9"}

Whitespace == {" "}

DigitVal(c) ==
    CASE c = "0" -> 0 [] c = "1" -> 1 [] c = "2" -> 2 [] c = "3" -> 3
      [] c = "4" -> 4 [] c = "5" -> 5 [] c = "6" -> 6 [] c = "7" -> 7
      [] c = "8" -> 8 [] c = "9" -> 9

\* sep in text
Contains(text, sep) == \E i \in 1..Len(text) : text[i] = sep

\* the index of the first sep in text (0 when there is none)
Find(text, sep) ==
    IF Contains(text, sep)
    THEN CHOOSE i \in 1..Len(text) :
            text[i] = sep /\ \A j \in 1..(i - 1) : text[j] # sep
    ELSE 0

\* str.strip(): leading and trailing whitespace removed
RECURSIVE LStrip(_)
LStrip(text) ==
    IF text # <<>> /\ Head(text) \in Whitespace THEN LStrip(Tail(text)) ELSE text

RECURSIVE RStrip(_)
RStrip(text) ==
    IF text # <<>> /\ text[Len(text)] \in Whitespace
    THEN RStrip(SubSeq(text, 1, Len(text) - 1))
    ELSE text

Strip(text) == RStrip(LStrip(text))

\* str.split(sep): the pieces between the separators, empty pieces kept
RECURSIVE Split(_, _)
Split(text, sep) ==
    LET i == Find(text, sep) IN
    IF i = 0 THEN <<text>>
    ELSE <<SubSeq(text, 1, i - 1)>> \o Split(SubSeq(text, i + 1, Len(text)), sep)

\* str.split(sep, 1) of a text that contains sep: cut at the first sep
SplitFirst(text, sep) ==
    LET i == Find(text, sep) IN
    <<SubSeq(text, 1, i - 1), SubSeq(text, i + 1, Len(text))>>

\* repr() of a text without quotes, backslashes or control characters
Repr(text) == <<"'">> \o text \o <<"'">>

\* the value of a run of digits and single underscores between digits
RECURSIVE DigitsValue(_, _)
DigitsValue(text, acc) ==
    IF text = <<>> THEN acc
    ELSE IF Head(text) = "_" THEN DigitsValue(Tail(text), acc)
    ELSE DigitsValue(Tail(text), 10 * acc + DigitVal(Head(text)))

\* a decimal literal body: digits, with single underscores only between digits
IsDigitRun(text) ==
    /\ text # <<>>
    /\ \A i \in 1..Len(text) : text[i] \in Digits \cup {"_"}
    /\ text[1] # "_" /\ text[Len(text)] # "_"
    /\ \A i \in 1..(Len(text) - 1) : ~(text[i] = "_" /\ text[i + 1] = "_")

\* int(text): surrounding whitespace, an optional sign, then a digit run
PyInt(text) ==
    LET s    == Strip(text)
        sign == IF s # <<>> /\ s[1] \in {"+", "-"} THEN s[1] ELSE ""
        body == IF sign = "" THEN s ELSE Tail(s)
    IN  IF IsDigitRun(body)
        THEN [ok |-> TRUE,
              val |-> IF sign = "-" THEN 0 - DigitsValue(body, 0)
                                    ELSE DigitsValue(body, 0)]
        ELSE [ok |-> FALSE, val |-> 0]

-----------------------------------------------------------------------------
(* parse_section_spec *)

\* the bounds as written, a reversed range left reversed
RangeBoundsNoSwap(start, end) == <<start, end>>

\* "Allow reversed ranges": the bounds in low-to-high order
RangeBounds(start, end) == IF start > end THEN <<end, start>> ELSE <<start, end>>

\* the chunk is a range when it holds a dash anywhere
IsRangeChunk(chunk) == Contains(chunk, "-")

\* one chunk of the spec, already stripped and not empty
ParseChunk(chunk) ==
    IF IsRangeChunk(chunk)
    THEN LET parts == SplitFirst(chunk, "-")
             start == PyInt(parts[1])
             end   == PyInt(parts[2])
         IN  IF ~start.ok \/ ~end.ok
             THEN Raise("ValueError",
                        [text |-> "Invalid section range: ", arg |-> Repr(chunk)])
             ELSE LET b == RangeBounds(start.val, end.val)
                  IN  Return(b[1]..b[2])
    ELSE LET n == PyInt(chunk)
         IN  IF n.ok THEN Return({n.val})
             ELSE Raise("ValueError",
                        [text |-> "Invalid section value: ", arg |-> Repr(chunk)])

\* the for loop over the chunks, sections being the set built so far
RECURSIVE ParseChunks(_, _)
ParseChunks(chunks, sections) ==
    IF chunks = <<>> THEN Return(sections)
    ELSE LET chunk == Strip(Head(chunks)) IN
         IF chunk = <<>> THEN ParseChunks(Tail(chunks), sections)
         ELSE LET r == ParseChunk(chunk) IN
              IF r.kind = "raise" THEN r
              ELSE ParseChunks(Tail(chunks), sections \cup r.value)

parse_section_spec(spec) == ParseChunks(Split(spec, ","), {})

-----------------------------------------------------------------------------
(* JSON values as json.loads builds them *)

JNull == [t |-> "null"]

JBool(b) == [t |-> "bool", b |-> b]

JInt(n) == [t |-> "int", n |-> n]

\* a float, held as the number of halves it is worth: JFloat(3) is 1.5
JFloat(h) == [t |-> "float", halves |-> h]

JStr(s) == [t |-> "str", s |-> s]

JList(items) == [t |-> "list", items |-> items]

JDict(items) == [t |-> "dict", items |-> items]

Item(key, value) == [k |-> key, v |-> value]

\* the section filter: None, or a set of integers
None == [t |-> "None"]

SetOf(S) == [t |-> "set", members |-> S]

\* dict operations, items being the dict's items in insertion order
Keys(items) == [i \in 1..Len(items) |-> items[i].k]

HasKey(items, key) == \E i \in 1..Len(items) : items[i].k = key

\* dict.get(key, default)
Get(items, key, default) ==
    IF HasKey(items, key)
    THEN items[CHOOSE i \in 1..Len(items) : items[i].k = key].v
    ELSE default

\* d[key] = value: an existing key keeps its place and takes the value
SetItem(items, key, value) ==
    IF HasKey(items, key)
    THEN [i \in 1..Len(items) |->
            IF items[i].k = key THEN Item(key, value) ELSE items[i]]
    ELSE Append(items, Item(key, value))

\* isinstance(v, list)
IsList(v) == v.t = "list"

\* isinstance(v, dict)
IsDict(v) == v.t = "dict"

\* hash(v) raises TypeError for the mutable containers
Hashable(v) == v.t \notin {"list", "dict"}

\* the message of the TypeError that hashing v raises
Unhashable(v) ==
    IF v.t = "list" THEN "unhashable type: 'list'" ELSE "unhashable type: 'dict'"

\* v in S for a hashable v and a set S of ints: Python's ==, under which
\* True == 1, False == 0 and 1.0 == 1
InSet(v, S) ==
    CASE v.t = "int"   -> v.n \in S
      [] v.t = "bool"  -> (IF v.b THEN 1 ELSE 0) \in S
      [] v.t = "float" -> v.halves % 2 = 0 /\ (v.halves \div 2) \in S
      [] OTHER         -> FALSE

-----------------------------------------------------------------------------
(* build_output_structure *)

\* the loop over data.items() that keeps every top-level field
RECURSIVE CopyAllFields(_, _)
CopyAllFields(out, items) ==
    IF items = <<>> THEN out
    ELSE CopyAllFields(SetItem(out, Head(items).k, Head(items).v), Tail(items))

\* the loop over data.items() that keeps the fields other than "sections"
RECURSIVE CopyFields(_, _)
CopyFields(out, items) ==
    IF items = <<>> THEN out
    ELSE IF Head(items).k = "sections" THEN CopyFields(out, Tail(items))
    ELSE CopyFields(SetItem(out, Head(items).k, Head(items).v), Tail(items))

\* the list comprehension: entries in order, kept when they are dicts whose
\* "section" is in S; hashing an unhashable "section" value raises
RECURSIVE FilterEntries(_, _, _)
FilterEntries(entries, S, kept) ==
    IF entries = <<>> THEN Return(JList(kept))
    ELSE LET s == Head(entries) IN
         IF ~IsDict(s) THEN FilterEntries(Tail(entries), S, kept)
         ELSE LET value == Get(s.items, "section", JNull) IN
              IF ~Hashable(value)
              THEN Raise("TypeError", Unhashable(value))
              ELSE FilterEntries(Tail(entries), S,
                       IF InSet(value, S) THEN Append(kept, s) ELSE kept)

\* a filter of None read as the empty set
FilterSectionsNoneEmpty(all_sections, filter) ==
    FilterEntries(all_sections.items, IF filter = None THEN {} ELSE filter.members, <<>>)

\* "if section_filter is None ... else ...": the filtered sections
FilterSections(all_sections, filter) ==
    IF filter = None THEN Return(all_sections)
    ELSE FilterEntries(all_sections.items, filter.members, <<>>)

\* data.get("sections") or []: every falsy value read as no sections
AllSectionsOrEmpty(items) ==
    LET v == Get(items, "sections", JList(<<>>)) IN
    IF v \in {JNull, JBool(FALSE), JInt(0), JStr(""), JDict(<<>>)} THEN JList(<<>>) ELSE v

\* data.get("sections", [])
AllSections(items) == Get(items, "sections", JList(<<>>))

build_output_structure(d, seed, theme, filter) ==
    IF ~IsDict(d)
    THEN Raise("AttributeError", "object has no attribute 'items'")
    ELSE LET out == CopyFields(<<Item("seed", JInt(seed)), Item("theme", JStr(theme))>>, d.items)
             all_sections == AllSections(d.items)
         IN  IF ~IsList(all_sections)
             THEN Raise("TypeError", "Input JSON 'sections' field must be a list.")
             ELSE LET filtered == FilterSections(all_sections, filter) IN
                  IF filtered.kind = "raise" THEN filtered
                  ELSE Return(JDict(SetItem(out, "sections", filtered.value)))

-----------------------------------------------------------------------------
(* The inputs the calls are checked on *)

\* the characters a spec is made of: digits, the separators, blank, a letter, a sign
SpecAlphabet == {"1", "3", "-", ",", " ", "a", "+"}

Texts(n) == UNION {[1..m -> SpecAlphabet] : m \in 0..n}

\* values of a "section" field: the usual integer, and every other JSON type
SectionValues ==
    {JInt(1), JInt(2), JBool(TRUE), JFloat(2), JNull, JStr("1"),
     JList(<<JInt(1)>>), JDict(<<>>)}

\* entries of a "sections" array: mappings with and without "section", and others
Entries ==
    {JDict(<<Item("section", v)>>) : v \in SectionValues}
        \cup {JDict(<<Item("y", JStr("z"))>>), JInt(1), JStr("s")}

EntryLists(n) == UNION {[1..m -> Entries] : m \in 0..n}

\* values of a "sections" key: arrays, and the JSON values that are not arrays
SectionsValues(n) ==
    {JList(l) : l \in EntryLists(n)}
        \cup {JStr("x"), JInt(3), JNull, JBool(TRUE), JDict(<<>>)}

TopKeys == {"title", "seed", "theme", "sections"}

\* the value a document of the model gives to a key other than "sections"
FieldValue(key) ==
    CASE key = "title" -> JStr("T")
      [] key = "seed"  -> JInt(7)
      [] key = "theme" -> JStr("old")

\* sequences of distinct top-level keys, at most n of them
KeySeqs(n) ==
    UNION {{ks \in [1..m -> TopKeys] : \A i, j \in 1..m : ks[i] = ks[j] => i = j}
            : m \in 0..n}

\* the document whose keys are ks, in that order, "sections" holding sections
Document(ks, sections) ==
    JDict([i \in 1..Len(ks) |->
            Item(ks[i], IF ks[i] = "sections" THEN sections ELSE FieldValue(ks[i]))])

Filters == {None} \cup {SetOf(S) : S \in SUBSET {1, 2}}

-----------------------------------------------------------------------------
(* Specification of a call of parse_section_spec *)

MainOff ==
    /\ pc = "off"
    /\ args = Unbound /\ stdin = Unbound /\ theme_file = Unbound
    /\ data = Unbound /\ theme_text = Unbound /\ section_filter = Unbound
    /\ output = Unbound
    /\ stdout = <<>> /\ stderr = <<>> /\ exit_status = -1

InitParse ==
    /\ call \in {[fn |-> "parse_section_spec", spec |-> s] : s \in Texts(MaxSpecLen)}
    /\ ret = Pending
    /\ MainOff

CallParse ==
    /\ call.fn = "parse_section_spec"
    /\ ret = Pending
    /\ ret' = parse_section_spec(call.spec)
    /\ UNCHANGED <<call, mainVars>>

SpecParse == InitParse /\ [][CallParse]_vars

-----------------------------------------------------------------------------
(* Specification of a call of build_output_structure *)

InitBuild ==
    /\ \E ks \in KeySeqs(MaxKeys), f \in Filters :
         \E sections \in IF \E i \in 1..Len(ks) : ks[i] = "sections"
                          THEN SectionsValues(MaxSections) ELSE {JNull} :
            call = [fn |-> "build_output_structure", data |-> Document(ks, sections),
                    seed |-> 42, theme_text |-> "Hi", section_filter |-> f]
    /\ ret = Pending
    /\ MainOff

CallBuild ==
    /\ call.fn = "build_output_structure"
    /\ ret = Pending
    /\ ret' = build_output_structure(call.data, call.seed, call.theme_text,
                                     call.section_filter)
    /\ UNCHANGED <<call, mainVars>>

SpecBuild == InitBuild /\ [][CallBuild]_vars

-----------------------------------------------------------------------------
(* main: the command line, read from call.argv, and the run's steps *)

\* a command-line option's text, or None for an option that is not given
Text(chars) == [t |-> "text", chars |-> chars]

\* what the run finds on sys.stdin: bytes that are not UTF-8, text that is not
\* JSON, or the text of a JSON value
StdinContents ==
    {[t |-> "undecodable"], [t |-> "malformed"]}
        \cup {[t |-> "json", value |-> v] :
                v \in {JDict(<<>>),
                       JDict(<<Item("title", JStr("T")),
                               Item("sections", JList(<<JDict(<<Item("section", JInt(1))>>),
                                                        JDict(<<Item("section", JInt(2))>>)>>))>>),
                       JDict(<<Item("seed", JInt(7))>>),
                       JDict(<<Item("sections", JStr("x"))>>),
                       JDict(<<Item("sections", JList(<<JDict(<<Item("section", JList(<<>>))>>)>>))>>),
                       JList(<<>>)}}

\* the file at --themepath: absent or unreadable, not UTF-8, or text
ThemeFiles == {[t |-> "oserror"], [t |-> "undecodable"], [t |-> "text", s |-> "Hi"]}

SeedOptions == {None, Text(<<"4", "2">>), Text(<<"x">>)}

ThemepathOptions == {None, Text(<<"t">>)}

SectionOptions ==
    {None, Text(<<>>), Text(<<"1">>), Text(<<"3", "-", "1">>), Text(<<"a">>),
     Text(<<"-", "1">>)}

\* a line on sys.stderr: its fixed text and the exception it reports
Report(text, exc) == [text |-> text, exc |-> exc]

\* sys.exit(status) after a message on stderr
Exit(status, report) ==
    /\ stderr' = Append(stderr, report)
    /\ exit_status' = status
    /\ pc' = "exited"

\* an exception no handler of main catches: the traceback, then status 1
Uncaught(exc) == Exit(1, Report("Traceback (most recent call last):", exc))

\* parser.parse_args(argv): --seed (an int) and --themepath are required
ParseArgs ==
    /\ pc = "parse_args"
    /\ LET a == call.argv IN
       IF \/ a.seed = None
          \/ a.themepath = None
          \/ ~PyInt(a.seed.chars).ok
       THEN /\ Exit(2, Report("usage: ", "SystemExit"))
            /\ UNCHANGED args
       ELSE /\ args' = [t |-> "Namespace", seed |-> PyInt(a.seed.chars).val,
                        themepath |-> a.themepath, section |-> a.section]
            /\ pc' = "read_stdin"
            /\ UNCHANGED <<stderr, exit_status>>
    /\ UNCHANGED <<call, ret, stdin, theme_file, data, theme_text,
                   section_filter, output, stdout>>

\* sys.stdin.read() and json.loads: only JSONDecodeError is handled
ReadStdin ==
    /\ pc = "read_stdin"
    /\ CASE stdin.t = "undecodable" ->
              Uncaught("UnicodeDecodeError") /\ UNCHANGED data
         [] stdin.t = "malformed" ->
              /\ Exit(1, Report("Error: failed to parse JSON from STDIN: ",
                                "JSONDecodeError"))
              /\ UNCHANGED data
         [] stdin.t = "json" ->
              /\ data' = stdin.value
              /\ pc' = "read_theme"
              /\ UNCHANGED <<stderr, exit_status>>
    /\ UNCHANGED <<call, ret, args, stdin, theme_file, theme_text,
                   section_filter, output, stdout>>

\* theme_path.read_text(encoding="utf-8"): only OSError is handled
ReadTheme ==
    /\ pc = "read_theme"
    /\ CASE theme_file.t = "oserror" ->
              /\ Exit(1, Report("Error: could not read theme file ", "OSError"))
              /\ UNCHANGED theme_text
         [] theme_file.t = "undecodable" ->
              Uncaught("UnicodeDecodeError") /\ UNCHANGED theme_text
         [] theme_file.t = "text" ->
              /\ theme_text' = theme_file
              /\ pc' = "parse_section"
              /\ UNCHANGED <<stderr, exit_status>>
    /\ UNCHANGED <<call, ret, args, stdin, theme_file, data,
                   section_filter, output, stdout>>

\* section_filter = None, or parse_section_spec(args.section)
ParseSection ==
    /\ pc = "parse_section"
    /\ IF args.section = None
       THEN /\ section_filter' = None
            /\ pc' = "build"
            /\ UNCHANGED <<stderr, exit_status>>
       ELSE LET r == parse_section_spec(args.section.chars) IN
            IF r.kind = "raise"
            THEN /\ Exit(1, Report("Error: ", r.exc))
                 /\ UNCHANGED section_filter
            ELSE /\ section_filter' = SetOf(r.value)
                 /\ pc' = "build"
                 /\ UNCHANGED <<stderr, exit_status>>
    /\ UNCHANGED <<call, ret, args, stdin, theme_file, data, theme_text,
                   output, stdout>>

\* the build step with its handler letting the run go on to the write
BuildIgnoringFailure ==
    /\ pc = "build"
    /\ LET r == build_output_structure(data, args.seed, theme_text.s, section_filter) IN
       /\ output' = IF r.kind = "raise" THEN JDict(<<>>) ELSE r.value
       /\ pc' = "write"
       /\ UNCHANGED <<stderr, exit_status>>
    /\ UNCHANGED <<call, ret, args, stdin, theme_file, data, theme_text,
                   section_filter, stdout>>

\* build_output_structure under "except Exception"
Build ==
    /\ pc = "build"
    /\ LET r == build_output_structure(data, args.seed, theme_text.s, section_filter) IN
       IF r.kind = "raise"
       THEN /\ Exit(1, Report("Error while building output structure: ", r.exc))
            /\ UNCHANGED output
       ELSE /\ output' = r.value
            /\ pc' = "write"
            /\ UNCHANGED <<stderr, exit_status>>
    /\ UNCHANGED <<call, ret, args, stdin, theme_file, data, theme_text,
                   section_filter, stdout>>

\* json.dump(output, sys.stdout, ...), the newline, and the normal exit
Write ==
    /\ pc = "write"
    /\ stdout' = stdout \o <<[text |-> "json.dump", of |-> output],
                             [text |-> "newline", of |-> JNull]>>
    /\ exit_status' = 0
    /\ pc' = "done"
    /\ UNCHANGED <<call, ret, args, stdin, theme_file, data, theme_text,
                   section_filter, output, stderr>>

InitMain ==
    /\ call \in {[fn |-> "main",
                  argv |-> [seed |-> sd, themepath |-> tp, section |-> sc]] :
                    sd \in SeedOptions, tp \in ThemepathOptions, sc \in SectionOptions}
    /\ ret = Pending
    /\ pc = "parse_args"
    /\ stdin \in StdinContents
    /\ theme_file \in ThemeFiles
    /\ args = Unbound /\ data = Unbound /\ theme_text = Unbound
    /\ section_filter = Unbound /\ output = Unbound
    /\ stdout = <<>> /\ stderr = <<>> /\ exit_status = -1

NextMain == ParseArgs \/ ReadStdin \/ ReadTheme \/ ParseSection \/ Build \/ Write

SpecMain == InitMain /\ [][NextMain]_vars

-----------------------------------------------------------------------------
(* Claims about parse_section_spec, checked under SpecParse *)

ParseCalled == call.fn = "parse_section_spec" /\ ret.kind # "pending"

\* the non-empty trimmed tokens of a spec, left to right
Tokens(spec) ==
    LET NonEmpty(tok) == tok # <<>>
        chunks == Split(spec, ",")
    IN  SelectSeq([i \in 1..Len(chunks) |-> Strip(chunks[i])], NonEmpty)

\* a non-negative integer literal: one or more decimal digits
IsLiteral(tok) == tok # <<>> /\ \A i \in 1..Len(tok) : tok[i] \in Digits

RECURSIVE LiteralValue(_)
LiteralValue(tok) ==
    IF Len(tok) = 1 THEN DigitVal(tok[1])
    ELSE 10 * LiteralValue(SubSeq(tok, 1, Len(tok) - 1)) + DigitVal(tok[Len(tok)])

\* two literals joined by a dash
IsPair(tok) ==
    \E i \in 1..Len(tok) :
        /\ tok[i] = "-"
        /\ IsLiteral(SubSeq(tok, 1, i - 1))
        /\ IsLiteral(SubSeq(tok, i + 1, Len(tok)))

PairLeft(tok) == LiteralValue(SubSeq(tok, 1, Find(tok, "-") - 1))

PairRight(tok) == LiteralValue(SubSeq(tok, Find(tok, "-") + 1, Len(tok)))

Min(a, b) == IF a < b THEN a ELSE b

Max(a, b) == IF a < b THEN b ELSE a

\* what a literal or a pair selects
Selected(tok) ==
    IF IsLiteral(tok) THEN {LiteralValue(tok)}
    ELSE Min(PairLeft(tok), PairRight(tok))..Max(PairLeft(tok), PairRight(tok))

LiteralSpec(spec) ==
    \A i \in 1..Len(Tokens(spec)) :
        IsLiteral(Tokens(spec)[i]) \/ IsPair(Tokens(spec)[i])

Reverse(seq) == [i \in 1..Len(seq) |-> seq[Len(seq) + 1 - i]]

\* C6: for a spec whose non-empty trimmed tokens are non-negative literals or
\* pairs of them joined by a dash, parse_section_spec returns the union of {n}
\* for each literal n and min(a,b)..max(a,b) for each pair a-b (the empty set
\* when there is no token), and the same set with the tokens in reverse order.
C6_ParseIsUnionOfTokens ==
    (ParseCalled /\ LiteralSpec(call.spec)) =>
        /\ ret = Return(UNION {Selected(Tokens(call.spec)[i]) :
                                  i \in 1..Len(Tokens(call.spec))})
        /\ ret = ParseChunks(Reverse(Split(call.spec, ",")), {})

\* a spec with a reversed pair and an empty token has been parsed
C6_Witness ==
    /\ ParseCalled /\ LiteralSpec(call.spec)
    /\ Len(Split(call.spec, ",")) > Len(Tokens(call.spec))
    /\ \E i \in 1..Len(Tokens(call.spec)) :
          LET tok == Tokens(call.spec)[i] IN
          IsPair(tok) /\ PairLeft(tok) > PairRight(tok)
    /\ ret.kind = "return" /\ Cardinality(ret.value) = 3

\* a single negative integer literal: a dash, then digits
IsNegativeLiteral(tok) == Len(tok) > 1 /\ tok[1] = "-" /\ IsLiteral(Tail(tok))

\* C7: a spec that is one negative integer literal, such as "-5", is accepted
\* and the returned set holds that negative integer.
C7_NegativeLiteralAccepted ==
    (ParseCalled /\ IsNegativeLiteral(Strip(call.spec))) =>
        /\ ret.kind = "return"
        /\ (0 - LiteralValue(Tail(Strip(call.spec)))) \in ret.value

\* the token is an integer, or splits at its first dash into two integers
IsIntegerOrPair(tok) ==
    \/ PyInt(tok).ok
    \/ /\ Contains(tok, "-")
       /\ PyInt(SplitFirst(tok, "-")[1]).ok
       /\ PyInt(SplitFirst(tok, "-")[2]).ok

HasInvalidToken(spec) ==
    \E i \in 1..Len(Tokens(spec)) : ~IsIntegerOrPair(Tokens(spec)[i])

FirstInvalidToken(spec) ==
    Tokens(spec)[CHOOSE i \in 1..Len(Tokens(spec)) :
                    /\ ~IsIntegerOrPair(Tokens(spec)[i])
                    /\ \A j \in 1..(i - 1) : IsIntegerOrPair(Tokens(spec)[j])]

\* C8: when some non-empty trimmed token is neither an integer nor a pair of
\* integers split at its first dash, parse_section_spec raises ValueError with
\* the text of the first such token: "Invalid section range: " when the token
\* holds a dash, "Invalid section value: " otherwise.
C8_FirstInvalidTokenReported ==
    (ParseCalled /\ HasInvalidToken(call.spec)) =>
        LET tok == FirstInvalidToken(call.spec) IN
        ret = Raise("ValueError",
                    [text |-> IF Contains(tok, "-") THEN "Invalid section range: "
                                                    ELSE "Invalid section value: ",
                     arg |-> Repr(tok)])

-----------------------------------------------------------------------------
(* Claims about build_output_structure, checked under SpecBuild *)

BuildCalled == call.fn = "build_output_structure" /\ ret.kind # "pending"

InputHasSections == BuildCalled /\ HasKey(call.data.items, "sections")

InputSections == Get(call.data.items, "sections", JNull)

InputHasSectionsList == InputHasSections /\ InputSections.t = "list"

FilterSupplied == BuildCalled /\ call.section_filter.t = "set"

OutputSections == Get(ret.value.items, "sections", JNull)

\* the value is a number that is a member of the set of integers S
IsMember(value, S) ==
    \/ value.t = "int" /\ value.n \in S
    \/ value.t = "float" /\ value.halves % 2 = 0 /\ (value.halves \div 2) \in S

\* the entries that are mappings whose "section" value is a member of S
Matching(entries, S) ==
    LET Match(e) == /\ e.t = "dict"
                    /\ HasKey(e.items, "section")
                    /\ IsMember(Get(e.items, "section", JNull), S)
    IN  SelectSeq(entries, Match)

\* C1: with "sections" a sequence and a selector set supplied, the output
\* "sections" is exactly the subsequence of the input entries that are mappings
\* whose "section" value is a member of the selector set.
C1_FilteredSectionsExact ==
    (InputHasSectionsList /\ FilterSupplied) =>
        /\ ret.kind = "return"
        /\ OutputSections =
              JList(Matching(InputSections.items, call.section_filter.members))

\* C2: with no filter (None), the output "sections" has the entries of the
\* input "sections" array in the same order, whatever the entries are.
C2_NoFilterKeepsSections ==
    (InputHasSectionsList /\ BuildCalled /\ call.section_filter = None) =>
        /\ ret.kind = "return"
        /\ OutputSections = InputSections

\* no filter, and an array holding a non-mapping and a mapping without "section"
C2_Witness ==
    /\ InputHasSectionsList /\ call.section_filter = None
    /\ \E i, j \in 1..Len(InputSections.items) :
          /\ InputSections.items[i].t # "dict"
          /\ InputSections.items[j].t = "dict"
          /\ ~HasKey(InputSections.items[j].items, "section")
    /\ ret.kind = "return"
    /\ Len(OutputSections.items) = 2

KeysExcept(items, dropped) ==
    LET Kept(key) == key \notin dropped IN SelectSeq(Keys(items), Kept)

C4_SeedAndThemeFromCaller ==
    (BuildCalled /\ ret.kind = "return") =>
        /\ Get(ret.value.items, "seed", JNull) = JInt(call.seed)
        /\ Get(ret.value.items, "theme", JNull) = JStr(call.theme_text)

ShapeError ==
    Raise("TypeError", "Input JSON 'sections' field must be a list.")

\* C5: the call raises the shape error exactly when the input has a "sections"
\* key whose value is not a sequence, with or without a filter.
C5_ShapeErrorIffNotSequence ==
    BuildCalled =>
        ((ret = ShapeError) <=> (InputHasSections /\ InputSections.t # "list"))

\* "sections" is null, a filter is supplied, and the shape error was raised
C5_Witness ==
    /\ InputHasSections /\ InputSections = JNull /\ FilterSupplied
    /\ ret = ShapeError

\* C9: with "sections" a sequence and a selector set supplied, the call
\* completes without raising, whatever the entries are.
C9_FilterNeverRaises ==
    (InputHasSectionsList /\ FilterSupplied) => ret.kind = "return"

-----------------------------------------------------------------------------
(* Claim about main, checked under SpecMain *)

\* whether the step main is about to take fails
StepFails ==
    CASE pc = "parse_args" ->
            \/ call.argv.seed = None \/ call.argv.themepath = None
            \/ ~PyInt(call.argv.seed.chars).ok
      [] pc = "read_stdin" -> stdin.t # "json"
      [] pc = "read_theme" -> theme_file.t # "text"
      [] pc = "parse_section" ->
            /\ args.section # None
            /\ parse_section_spec(args.section.chars).kind = "raise"
      [] pc = "build" ->
            build_output_structure(data, args.seed, theme_text.s,
                                   section_filter).kind = "raise"
      [] OTHER -> FALSE

\* the position that follows each position when its step succeeds
Following(p) ==
    CASE p = "parse_args" -> "read_stdin"
      [] p = "read_stdin" -> "read_theme"
      [] p = "read_theme" -> "parse_section"
      [] p = "parse_section" -> "build"
      [] p = "build" -> "write"
      [] p = "write" -> "done"
      [] OTHER -> "none"

\* C10: the steps run in the order read stdin, read theme, parse --section,
\* build, write; a step that fails ends the run with a non-zero status and a
\* message on stderr, no later step runs, and nothing is on stdout; stdout is
\* written only once every step before it has succeeded.
C10_OutputOnlyAfterEverySuccess ==
    /\ [](stdout # <<>> =>
            /\ pc = "done" /\ exit_status = 0 /\ stderr = <<>>
            /\ data # Unbound /\ theme_text # Unbound
            /\ section_filter # Unbound /\ output # Unbound
            /\ (args.section # None => section_filter.t = "set"))
    /\ [](pc = "exited" =>
            exit_status > 0 /\ stderr # <<>> /\ stdout = <<>>)
    /\ [][/\ pc \notin {"exited", "done"}
          /\ IF StepFails
             THEN pc' = "exited" /\ exit_status' > 0 /\ Len(stderr') = Len(stderr) + 1
             ELSE pc' = Following(pc) /\ stderr' = stderr
          /\ pc # "write" => stdout' = <<>>]_vars

\* a run with --section given has written its output
C10_Witness ==
    /\ pc = "done" /\ Len(stdout) = 2 /\ args.section # None
    /\ section_filter = SetOf({1, 2, 3})

=============================================================================
